---- MODULE Spec2Model ----
(***************************************************************************)
(* Model of seo_analyzer_tool.py: the Streamlit script that fetches one    *)
(* page, extracts on-page signals with BeautifulSoup, scores them and      *)
(* prints recommendations.                                                 *)
(*                                                                         *)
(* Text is modelled as TLA+ strings (sequences of characters); Len, \o and *)
(* SubSeq are the sequence operators.  The character U+274C that starts    *)
(* the three placeholder strings of the source is written "*" here: it is  *)
(* one code point, it is no letter and no whitespace.                      *)
(*                                                                         *)
(* Floating-point scores are modelled exactly, as integers in hundredths   *)
(* of a point (round(x, 2) yields a multiple of 0.01).  Where the exact    *)
(* value lies half-way between two hundredths the double that Python       *)
(* rounds may sit on either side, so both neighbours are allowed there.    *)
(***************************************************************************)
EXTENDS Integers, Sequences, FiniteSets, TLC

VARIABLES pc, url, target_keyword, fetched, results, msgs, words, ngram_n, ngram_out

vars == <<pc, url, target_keyword, fetched, results, msgs, words, ngram_n, ngram_out>>

(***************************************************************************)
(* Bounds of the model.                                                    *)
(***************************************************************************)
MaxImages == 2
MaxSuffix == 2

(***************************************************************************)
(* Program constants.                                                      *)
(***************************************************************************)
TitleCap == 60
DescCap == 160
TopN == 10
MinWordLen == 2

NoTitle == "* No title tag"
NoMetaDescription == "* No meta description"
NoH1 == "* No H1 tag found"

(***************************************************************************)
(* String helpers: str.lower, str.strip, the in operator, str.split,       *)
(* ' '.join and re.sub(r"[^a-zA-Z\s]", "", -).                             *)
(***************************************************************************)
Min(a, b) == IF a <= b THEN a ELSE b

UpperLetters == "ABCDEFGHIJKLMNOPQRSTUVWXYZ"
LowerLetters == "abcdefghijklmnopqrstuvwxyz"

CharAt(s, i) == SubSeq(s, i, i)

IsSpace(c) == c = " "

UpperSet == {CharAt(UpperLetters, i) : i \in 1..26}

LetterSet == UpperSet \cup {CharAt(LowerLetters, i) : i \in 1..26}

LowerMap == [c \in UpperSet |-> CharAt(LowerLetters, CHOOSE i \in 1..26 : CharAt(UpperLetters, i) = c)]

IsLetter(c) == c \in LetterSet

LowerChar(c) == IF c \in UpperSet THEN LowerMap[c] ELSE c

\* applies a per-character map to every character (by halves, to keep the
\* evaluation shallow)
RECURSIVE lower(_)
lower(s) ==
    IF Len(s) = 0 THEN ""
    ELSE IF Len(s) = 1 THEN LowerChar(s)
    ELSE LET h == Len(s) \div 2
         IN  lower(SubSeq(s, 1, h)) \o lower(SubSeq(s, h + 1, Len(s)))

\* str.strip(): without the leading and the trailing whitespace
strip(s) ==
    LET solid == {i \in 1..Len(s) : ~IsSpace(CharAt(s, i))}
    IN  IF solid = {} THEN ""
        ELSE SubSeq(s, CHOOSE i \in solid : \A j \in solid : i <= j,
                       CHOOSE i \in solid : \A j \in solid : j <= i)

\* needle in hay
Contains(needle, hay) ==
    \E i \in 0..(Len(hay) - Len(needle)) : SubSeq(hay, i + 1, i + Len(needle)) = needle

RECURSIVE StripNonLetters(_)
StripNonLetters(s) ==
    IF Len(s) = 0 THEN ""
    ELSE IF Len(s) = 1 THEN (IF IsLetter(s) \/ IsSpace(s) THEN s ELSE "")
    ELSE LET h == Len(s) \div 2
         IN  StripNonLetters(SubSeq(s, 1, h)) \o StripNonLetters(SubSeq(s, h + 1, Len(s)))

\* str.split(): the maximal runs of non-whitespace characters, in order
WordStarts(s) ==
    {i \in 1..Len(s) : ~IsSpace(CharAt(s, i)) /\ (i = 1 \/ IsSpace(CharAt(s, i - 1)))}

WordEnd(s, i) ==
    CHOOSE j \in i..Len(s) :
        /\ \A k \in i..j : ~IsSpace(CharAt(s, k))
        /\ (j = Len(s) \/ IsSpace(CharAt(s, j + 1)))

RECURSIVE WordsFrom(_, _)
WordsFrom(s, starts) ==
    IF starts = {} THEN <<>>
    ELSE LET i == CHOOSE x \in starts : \A y \in starts : x <= y
         IN  <<SubSeq(s, i, WordEnd(s, i))>> \o WordsFrom(s, starts \ {i})

split(s) == WordsFrom(s, WordStarts(s))

RECURSIVE JoinSpace(_)
JoinSpace(ws) ==
    IF Len(ws) = 0 THEN ""
    ELSE IF Len(ws) = 1 THEN ws[1]
    ELSE ws[1] \o " " \o JoinSpace(Tail(ws))

RECURSIVE Xs(_)
Xs(k) == IF k <= 0 THEN "" ELSE IF k = 1 THEN "x" ELSE Xs(k \div 2) \o Xs(k - k \div 2)

\* s filled up with "x" to n characters
Pad(s, n) == s \o Xs(n - Len(s))

(***************************************************************************)
(* clean_and_tokenize (the Counter of keywords it also returns is not used *)
(* by any caller and is left out).                                         *)
(***************************************************************************)
stopwords ==
    {"the", "and", "is", "in", "to", "of", "for", "on", "with", "a", "an", "as", "by", "at",
     "this", "that", "it", "be", "are", "from", "or", "we", "you", "your", "can", "our"}

clean_and_tokenize(text) ==
    LET cleaned == StripNonLetters(lower(text))
        ws == split(cleaned)
        Keep(w) == w \notin stopwords /\ Len(w) > MinWordLen
    IN  [keywords |-> SelectSeq(ws, Keep), total_words |-> Len(ws), text |-> cleaned]

(***************************************************************************)
(* get_ngram_density                                                       *)
(***************************************************************************)
\* zip(*[words[i:] for i in range(n)]) joined with ' ': one phrase per window
Phrases(ws, n) ==
    IF Len(ws) < n THEN <<>>
    ELSE [i \in 1..(Len(ws) - n + 1) |-> JoinSpace(SubSeq(ws, i, i + n - 1))]

\* Counter(phrases): <<phrase, count>> pairs in order of first insertion
RECURSIVE CounterAdd(_, _)
CounterAdd(cnt, p) ==
    IF Len(cnt) = 0 THEN << <<p, 1>> >>
    ELSE IF cnt[1][1] = p THEN << <<p, cnt[1][2] + 1>> >> \o Tail(cnt)
    ELSE <<cnt[1]>> \o CounterAdd(Tail(cnt), p)

RECURSIVE CounterOf(_, _)
CounterOf(ps, cnt) ==
    IF Len(ps) = 0 THEN cnt ELSE CounterOf(Tail(ps), CounterAdd(cnt, ps[1]))

\* inserts item before the elements of equal count: ties in reverse insertion order
RECURSIVE InsertDesc_Unstable(_, _)
InsertDesc_Unstable(sorted, item) ==
    IF Len(sorted) = 0 THEN <<item>>
    ELSE IF sorted[1][2] > item[2]
         THEN <<sorted[1]>> \o InsertDesc_Unstable(Tail(sorted), item)
    ELSE <<item>> \o sorted

\* inserts item after every element whose count is >= its own: stable, descending
RECURSIVE InsertDesc(_, _)
InsertDesc(sorted, item) ==
    IF Len(sorted) = 0 THEN <<item>>
    ELSE IF sorted[1][2] >= item[2] THEN <<sorted[1]>> \o InsertDesc(Tail(sorted), item)
    ELSE <<item>> \o sorted

RECURSIVE SortDesc(_, _)
SortDesc(items, acc) ==
    IF Len(items) = 0 THEN acc ELSE SortDesc(Tail(items), InsertDesc(acc, items[1]))

\* Counter.most_common(k): heapq.nlargest(k, items, key=count), ties in insertion order
most_common(cnt, k) ==
    LET s == SortDesc(cnt, <<>>) IN SubSeq(s, 1, Min(k, Len(s)))

get_ngram_density(ws, n) == most_common(CounterOf(Phrases(ws, n), <<>>), TopN)

(***************************************************************************)
(* The parsed page.  BeautifulSoup(html, "html.parser") is library code;   *)
(* a page is given by what the lookups of analyze_seo see in it:           *)
(*   title      the first <title>: absent, present with .string None       *)
(*              (no child, or not exactly one text child), or present      *)
(*              with its text;                                             *)
(*   metas      for each of the four selectors of lines 47-50, in that     *)
(*              order, the first matching <meta>: absent, present without  *)
(*              a content attribute, or present with its content;          *)
(*   h1         the text of every <h1>, in document order;                 *)
(*   imgs       for every <img>, its alt attribute: absent or its value;   *)
(*   canonical  whether a <link rel="canonical"> exists;                   *)
(*   para       the remaining visible text of the body.                    *)
(***************************************************************************)
None == [kind |-> "None"]

T60 == Pad("Seo notes ", TitleCap)
T61 == Pad("Seo notes ", TitleCap + 1)
D160 == Pad("Notes on seo ", DescCap)
D161 == Pad("Long text ", DescCap + 1)

TitleElems ==
    {[kind |-> "absent", text |-> ""], [kind |-> "nostring", text |-> ""]}
    \cup {[kind |-> "text", text |-> t] : t \in {" ", " Seo Tips ", T60, T61}}

MetaAbsent == [kind |-> "absent", content |-> ""]
MetaNoContent == [kind |-> "nocontent", content |-> ""]
MetaContent(c) == [kind |-> "content", content |-> c]

MetaLists ==
    {<<m1, m2, m3, m4>> :
        m1 \in {MetaAbsent, MetaContent(""), MetaContent(D160)},
        m2 \in {MetaAbsent, MetaContent(" Seo notes for all ")},
        m3 \in {MetaAbsent, MetaContent(D161)},
        m4 \in {MetaAbsent, MetaNoContent}}

H1Lists == {<<>>, <<" Seo notes ">>, <<"Welcome", "About us">>}

AltAbsent == [present |-> FALSE, value |-> ""]
AltValue(v) == [present |-> TRUE, value |-> v]
AltAttrs == {AltAbsent, AltValue(""), AltValue(" "), AltValue("Logo")}

ImgLists == UNION {[1..k -> AltAttrs] : k \in 0..MaxImages}

Paras == {"The 3 best seo tools are seo tools!"}

Docs ==
    [title : TitleElems, metas : MetaLists, h1 : H1Lists, imgs : ImgLists,
     canonical : BOOLEAN, para : Paras]

Keywords == {"", "seo", "no"}

Urls == {"", "example.com", "https://example.com"}

HttpStatuses == {200, 404}

(***************************************************************************)
(* analyze_seo                                                             *)
(***************************************************************************)
\* soup.title.string.strip() if soup.title else NoTitle; .string None has no strip
TitleRaises(doc) == doc.title.kind = "nostring"

ExtractTitle(doc) ==
    IF doc.title.kind = "absent" THEN NoTitle ELSE strip(doc.title.text)

\* a or b or c or d over the four soup.find results: a Tag is always truthy
RECURSIVE FirstFound(_, _)
FirstFound(metas, i) ==
    IF i > Len(metas) THEN None
    ELSE IF metas[i].kind # "absent" THEN metas[i]
    ELSE FirstFound(metas, i + 1)

meta_desc_tag(doc) == FirstFound(doc.metas, 1)

\* tag.get("content") is None without the attribute and "" for an empty one
ExtractMetaDescription(doc) ==
    LET tag == meta_desc_tag(doc)
    IN  IF tag # None /\ tag.kind = "content" /\ tag.content # ""
        THEN strip(tag.content)
        ELSE NoMetaDescription

ExtractH1(doc) == [i \in 1..Len(doc.h1) |-> strip(doc.h1[i])]

\* not img.get("alt"): the attribute is absent or the empty string
AltIsMissing(img) == ~img.present \/ img.value = ""

CountMissingAlt(doc) == Cardinality({i \in 1..Len(doc.imgs) : AltIsMissing(doc.imgs[i])})

\* soup.get_text(separator=' ', strip=True): stripped, non-empty text nodes
get_text(doc) ==
    LET nodes == (IF doc.title.kind = "text" THEN <<doc.title.text>> ELSE <<>>)
                 \o doc.h1 \o <<doc.para>>
        stripped == [i \in 1..Len(nodes) |-> strip(nodes[i])]
        NonEmpty(t) == t # ""
    IN  JoinSpace(SelectSeq(stripped, NonEmpty))

\* the integers nearest to num/den; both when num/den is exactly half-way
RoundSet(num, den) ==
    LET q == num \div den
        r == num % den
    IN  IF 2 * r < den THEN {q}
        ELSE IF 2 * r > den THEN {q + 1}
        ELSE {q, q + 1}

title_score(title) == Min(Len(title), TitleCap)

desc_score(meta_description) == Min(Len(meta_description), DescCap)

h1_score(h1_tags) == IF Len(h1_tags) > 0 THEN 10 ELSE 0

\* in hundredths of a point
ImageScores(total, missing) ==
    IF total = 0 THEN {1000} ELSE RoundSet((total - missing) * 1000, total)

keyword_in_title(keyword, title) ==
    IF keyword # "" /\ Contains(keyword, lower(title)) THEN 5 ELSE 0

keyword_in_h1(keyword, h1_tags) ==
    IF keyword # "" /\ \E i \in 1..Len(h1_tags) : Contains(keyword, lower(h1_tags[i]))
    THEN 5 ELSE 0

keyword_in_meta(keyword, meta_description) ==
    IF keyword # "" /\ Contains(keyword, lower(meta_description)) THEN 5 ELSE 0

canonical_tag(doc) == IF doc.canonical THEN 5 ELSE 0

keyword_consistency_score(kt, km, kh) == IF kt # 0 /\ km # 0 /\ kh # 0 THEN 10 ELSE 0

\* weighted_sum in units of 1/2400 point: 35/60 = 1400/2400, 25/160 = 375/2400
weighted_sum(ts, ds, hs, img, kt, km, kh, ct, kc) ==
    ts * 1400 + ds * 375 + (hs + kt + km + kh + ct + kc) * 2400 + img * 24

\* round((weighted_sum / 100) * 100, 2), in hundredths of a point
TotalScores(ws) == RoundSet(ws, 24)

\* the locals of analyze_seo that depend on the text of the page and on the
\* keyword only (lines 44-55, 62-71, 74-76, 79)
TextLocals(doc, keyword) ==
    LET title == ExtractTitle(doc)
        meta_description == ExtractMetaDescription(doc)
        h1_tags == ExtractH1(doc)
        tok == clean_and_tokenize(get_text(doc))
        kt == keyword_in_title(keyword, title)
        kh == keyword_in_h1(keyword, h1_tags)
        km == keyword_in_meta(keyword, meta_description)
    IN  [title |-> title, meta_description |-> meta_description, h1_tags |-> h1_tags,
         h1_info |-> IF Len(h1_tags) > 0 THEN h1_tags ELSE <<NoH1>>,
         words |-> tok.keywords, total_words |-> tok.total_words,
         bigrams |-> get_ngram_density(tok.keywords, 2),
         trigrams |-> get_ngram_density(tok.keywords, 3),
         fourgrams |-> get_ngram_density(tok.keywords, 4),
         title_score |-> title_score(title), desc_score |-> desc_score(meta_description),
         h1_score |-> h1_score(h1_tags),
         keyword_in_title |-> kt, keyword_in_h1 |-> kh, keyword_in_meta |-> km,
         keyword_consistency_score |-> keyword_consistency_score(kt, km, kh)]

\* TextLocals tabulated once over the pages without images and canonical link
TextOnly(doc) == [doc EXCEPT !.imgs = <<>>, !.canonical = FALSE]

TextDocs == {d \in Docs : d.imgs = <<>> /\ ~d.canonical /\ ~TitleRaises(d)}

\* (@@ turns the function into an explicit table)
TextLocalsTable == [p \in TextDocs \X Keywords |-> TextLocals(p[1], p[2])] @@ <<>>

\* the locals of analyze_seo at its return statement, for one outcome of the
\* rounding of image_score
Locals(doc, keyword, img) ==
    LET t == TextLocalsTable[<<TextOnly(doc), keyword>>]
    IN  [text |-> t,
         images_total |-> Len(doc.imgs), images_missing_alt |-> CountMissingAlt(doc),
         image_score |-> img, canonical_tag |-> canonical_tag(doc),
         weighted_sum |-> weighted_sum(t.title_score, t.desc_score, t.h1_score, img,
                                       t.keyword_in_title, t.keyword_in_meta,
                                       t.keyword_in_h1, canonical_tag(doc),
                                       t.keyword_consistency_score)]

\* the dictionary analyze_seo returns
ResultOf(l, keyword, total) ==
    [title |-> l.text.title, meta_description |-> l.text.meta_description,
     h1_tags |-> l.text.h1_info,
     images_total |-> l.images_total, images_missing_alt |-> l.images_missing_alt,
     word_count |-> l.text.total_words,
     bigrams |-> l.text.bigrams, trigrams |-> l.text.trigrams, fourgrams |-> l.text.fourgrams,
     title_score |-> l.text.title_score, desc_score |-> l.text.desc_score,
     total_score |-> total,
     keyword_consistent |-> (l.text.keyword_consistency_score = 10), keyword |-> keyword]

(***************************************************************************)
(* display_recommendations: the messages it emits, in order                *)
(***************************************************************************)
title_missing(res) == res.title = NoTitle

desc_missing(res) == res.meta_description = NoMetaDescription

h1_missing(res) ==
    Len(res.h1_tags) = 0 \/ \A i \in 1..Len(res.h1_tags) : res.h1_tags[i] = NoH1

alt_missing(res) == res.images_total > 0 /\ res.images_missing_alt = res.images_total

StructuralBlock(res) ==
    <<"warning_missing_elements">>
    \o (IF title_missing(res) THEN <<"missing_title">> ELSE <<>>)
    \o (IF desc_missing(res) THEN <<"missing_description">> ELSE <<>>)
    \o (IF h1_missing(res) THEN <<"missing_h1">> ELSE <<>>)
    \o (IF alt_missing(res) THEN <<"missing_alt">> ELSE <<>>)

\* the positive message only above 85
TierMessage_Above85(score) ==
    IF score > 8500 THEN <<"tier_great">>
    ELSE IF score >= 6000 THEN <<"tier_room_for_improvement">>
    ELSE <<"tier_low">>

\* score is in hundredths of a point
TierMessage(score) ==
    IF score >= 8500 THEN <<"tier_great">>
    ELSE IF score >= 6000 THEN <<"tier_room_for_improvement">>
    ELSE <<"tier_low">>

\* the mismatch check also held back when all images lack alt text
MismatchApplies_AltToo(res) ==
    res.keyword # "" /\ ~title_missing(res) /\ ~desc_missing(res) /\ ~h1_missing(res)
    /\ ~alt_missing(res)

MismatchApplies(res) ==
    res.keyword # "" /\ ~title_missing(res) /\ ~desc_missing(res) /\ ~h1_missing(res)

display_recommendations(score, res) ==
    <<"subheader_recommendations">>
    \o (IF title_missing(res) \/ desc_missing(res) \/ h1_missing(res) \/ alt_missing(res)
        THEN StructuralBlock(res)
        ELSE TierMessage(score))
    \o (IF MismatchApplies(res) /\ ~res.keyword_consistent
        THEN <<"error_keyword_mismatch">>
        ELSE <<>>)

(***************************************************************************)
(* The script: one run per submitted input.                                *)
(***************************************************************************)
\* urlparse(url).scheme: what precedes the first ":"
RECURSIVE SchemeFrom(_, _)
SchemeFrom(u, i) ==
    IF i > Len(u) THEN ""
    ELSE IF CharAt(u, i) = ":" THEN SubSeq(u, 1, i - 1)
    ELSE SchemeFrom(u, i + 1)

scheme(u) == SchemeFrom(u, 1)

\* response.text of a response without a body
EmptyBody == [kind |-> "empty"]

NoFetch == [outcome |-> "none", status |-> 0, html |-> None]

NoResults == [kind |-> "None"]

Init ==
    /\ pc = "idle"
    /\ url = ""
    /\ target_keyword = ""
    /\ fetched = NoFetch
    /\ results = [res |-> NoResults, locals |-> NoResults]
    /\ msgs = <<>>
    /\ words = <<>>
    /\ ngram_n = 0
    /\ ngram_out = <<>>

\* the two text inputs; the keyword arrives stripped and lower-cased (line 15)
Submit(u, k) ==
    /\ pc = "idle"
    /\ url' = u
    /\ target_keyword' = k
    /\ pc' = "start"
    /\ UNCHANGED <<fetched, results, msgs, words, ngram_n, ngram_out>>

\* line 156: if url
EmptyUrl ==
    /\ pc = "start"
    /\ url = ""
    /\ pc' = "end"
    /\ UNCHANGED <<url, target_keyword, fetched, results, msgs, words, ngram_n, ngram_out>>

\* lines 157-158
InvalidUrl ==
    /\ pc = "start"
    /\ url # ""
    /\ scheme(url) = ""
    /\ msgs' = Append(msgs, "error_invalid_url")
    /\ pc' = "end"
    /\ UNCHANGED <<url, target_keyword, fetched, results, words, ngram_n, ngram_out>>

\* line 160, fetch_page_content: requests.get raised
FetchRaises(cause) ==
    /\ pc = "start"
    /\ url # ""
    /\ scheme(url) # ""
    /\ fetched' = [outcome |-> cause, status |-> 0, html |-> None]
    /\ msgs' = Append(msgs, "error_fetching_url")
    /\ pc' = "fetch_returned"
    /\ UNCHANGED <<url, target_keyword, results, words, ngram_n, ngram_out>>

\* line 160, fetch_page_content: requests.get returned a response, whose text
\* is returned whatever its status
FetchResponds ==
    /\ pc = "start"
    /\ url # ""
    /\ scheme(url) # ""
    /\ \E status \in HttpStatuses, body \in Docs \cup {EmptyBody} :
         fetched' = [outcome |-> "response", status |-> status, html |-> body]
    /\ pc' = "fetch_returned"
    /\ UNCHANGED <<url, target_keyword, results, msgs, words, ngram_n, ngram_out>>

HtmlTruthy(h) == h # None /\ h # EmptyBody

\* line 161: if html, not taken
NoHtml ==
    /\ pc = "fetch_returned"
    /\ ~HtmlTruthy(fetched.html)
    /\ pc' = "end"
    /\ UNCHANGED <<url, target_keyword, fetched, results, msgs, words, ngram_n, ngram_out>>

\* lines 161-163, analyze_seo raising on soup.title.string.strip()
AnalyzeRaises ==
    /\ pc = "fetch_returned"
    /\ HtmlTruthy(fetched.html)
    /\ TitleRaises(fetched.html)
    /\ msgs' = Append(msgs, "success_page_fetched")
    /\ pc' = "raised"
    /\ UNCHANGED <<url, target_keyword, fetched, results, words, ngram_n, ngram_out>>

\* lines 161-163, analyze_seo returning
Analyze ==
    /\ pc = "fetch_returned"
    /\ HtmlTruthy(fetched.html)
    /\ ~TitleRaises(fetched.html)
    /\ \E img \in ImageScores(Len(fetched.html.imgs), CountMissingAlt(fetched.html)) :
         LET l == Locals(fetched.html, target_keyword, img)
         IN  \E total \in TotalScores(l.weighted_sum) :
                results' = [res |-> ResultOf(l, target_keyword, total), locals |-> l]
    /\ msgs' = Append(msgs, "success_page_fetched")
    /\ pc' = "analyzed"
    /\ UNCHANGED <<url, target_keyword, fetched, words, ngram_n, ngram_out>>

\* lines 165-197: the report and its three gauges
RenderReport ==
    /\ pc = "analyzed"
    /\ msgs' = msgs \o <<"gauge_title", "gauge_description", "gauge_total">>
    /\ pc' = "rendered"
    /\ UNCHANGED <<url, target_keyword, fetched, results, words, ngram_n, ngram_out>>

\* line 199
DisplayRecommendations ==
    /\ pc = "rendered"
    /\ msgs' = msgs \o display_recommendations(results.res.total_score, results.res)
    /\ pc' = "end"
    /\ UNCHANGED <<url, target_keyword, fetched, results, words, ngram_n, ngram_out>>

\* the script has ended, by its last line or by an uncaught exception; the page
\* waits for the next input
Rerun ==
    /\ pc \in {"end", "raised"}
    /\ pc' = "idle"
    /\ url' = ""
    /\ target_keyword' = ""
    /\ fetched' = NoFetch
    /\ results' = [res |-> NoResults, locals |-> NoResults]
    /\ msgs' = <<>>
    /\ UNCHANGED <<words, ngram_n, ngram_out>>

Next ==
    \/ \E u \in Urls, k \in Keywords : Submit(u, k)
    \/ EmptyUrl
    \/ InvalidUrl
    \/ \E cause \in {"network_error", "timeout"} : FetchRaises(cause)
    \/ FetchResponds
    \/ NoHtml
    \/ AnalyzeRaises
    \/ Analyze
    \/ RenderReport
    \/ DisplayRecommendations
    \/ Rerun

Spec == Init /\ [][Next]_vars

(***************************************************************************)
(* get_ngram_density on its own: the token list is an input, the call      *)
(* stores what the function returns.                                       *)
(***************************************************************************)
NgramBase ==
    <<"seo", "tools", "seo", "best", "seo", "guide", "tools", "best", "tools", "guide",
      "best", "guide", "seo", "seo", "tools", "tools">>

SuffixTokens == {"seo", "tools", "best"}

Suffixes == UNION {[1..m -> SuffixTokens] : m \in 0..MaxSuffix}

NgramInputs == {SubSeq(NgramBase, 1, k) \o suf : k \in 0..Len(NgramBase), suf \in Suffixes}

InitNgram ==
    /\ pc = "idle"
    /\ url = ""
    /\ target_keyword = ""
    /\ fetched = NoFetch
    /\ results = [res |-> NoResults, locals |-> NoResults]
    /\ msgs = <<>>
    /\ words \in NgramInputs
    /\ ngram_n = 0
    /\ ngram_out = <<>>

NgramCall(n) ==
    /\ ngram_n = 0
    /\ ngram_n' = n
    /\ ngram_out' = get_ngram_density(words, n)
    /\ UNCHANGED <<pc, url, target_keyword, fetched, results, msgs, words>>

NgramDiscard ==
    /\ ngram_n # 0
    /\ ngram_n' = 0
    /\ ngram_out' = <<>>
    /\ UNCHANGED <<pc, url, target_keyword, fetched, results, msgs, words>>

NextNgram ==
    \/ \E n \in 2..4 : NgramCall(n)
    \/ NgramDiscard

SpecNgram == InitNgram /\ [][NextNgram]_vars

(***************************************************************************)
(* Properties                                                              *)
(***************************************************************************)
InMsgs(m) == \E i \in 1..Len(msgs) : msgs[i] = m

CountMsgs(m) == Cardinality({i \in 1..Len(msgs) : msgs[i] = m})

\* analyze_seo has returned for the page in fetched.html
Analyzed == pc \in {"analyzed", "rendered", "end"} /\ results.res # NoResults

Recommended == pc = "end" /\ results.res # NoResults

\* C1: the total score returned by analyze_seo lies between 0 and 100
\* (0 and 10000 hundredths), whatever the signals and the keyword.
C1_TotalScoreWithin100 ==
    Analyzed => results.res.total_score >= 0 /\ results.res.total_score <= 10000

\* C2: a page without a <title> is reported with the title missing and
\* title_score 0; a title of 60 or of 61 characters has title_score 60.
C2_MissingTitleScoresZero ==
    Analyzed =>
        /\ fetched.html.title.kind = "absent" =>
              results.res.title = NoTitle /\ results.res.title_score = 0
        /\ (fetched.html.title.kind = "text"
              /\ Len(results.res.title) \in {60, 61}) => results.res.title_score = 60

\* C3: analyze_seo never raises: every page that was fetched gets a result
\* record, also when its <title> has no single text child.
C3_AnalyzeNeverRaises == pc # "raised"

\* C4: with a non-empty keyword, a page without title (without meta
\* description) has keyword_in_title (keyword_in_meta) 0 and is not keyword
\* consistent.
C4_KeywordNotMatchedInPlaceholder ==
    (Analyzed /\ results.res.keyword # "") =>
        /\ fetched.html.title.kind = "absent" =>
              /\ results.locals.text.keyword_in_title = 0
              /\ ~results.res.keyword_consistent
        /\ (\A i \in 1..4 : fetched.html.metas[i].kind = "absent") =>
              /\ results.locals.text.keyword_in_meta = 0
              /\ ~results.res.keyword_consistent

\* C5: the meta description is the content of the first of the four candidate
\* tags, in priority order, whose content is non-empty; it is the placeholder
\* only when no candidate has non-empty content.
HasContent(m) == m.kind = "content" /\ m.content # ""

C5_FirstNonEmptyContentWins ==
    Analyzed =>
        LET metas == fetched.html.metas
            good == {i \in 1..4 : HasContent(metas[i])}
        IN  IF good = {}
            THEN results.res.meta_description = NoMetaDescription
            ELSE LET first == CHOOSE i \in good : \A j \in good : i <= j
                 IN  results.res.meta_description = strip(metas[first].content)

\* C6: when the fetch fails by a network error, a timeout or a non-success
\* status, the failure is reported and neither analyze_seo nor the gauges nor
\* display_recommendations run.
FetchFailed ==
    \/ fetched.outcome \in {"network_error", "timeout"}
    \/ fetched.outcome = "response" /\ fetched.status \notin 200..299

C6_FailedFetchAborts ==
    FetchFailed =>
        /\ pc \notin {"analyzed", "rendered", "raised"}
        /\ results.res = NoResults
        /\ ~InMsgs("gauge_total")
        /\ ~InMsgs("subheader_recommendations")
        /\ pc = "end" => InMsgs("error_fetching_url")

\* C7 as stated: the keyword-mismatch warning is emitted exactly when the
\* keyword is non-empty, none of title, meta description, H1 and image alt
\* text is missing and the page is not keyword consistent, and never together
\* with the structural warning.
C7_MismatchOnlyWithoutStructuralWarning ==
    Recommended =>
        LET res == results.res
            missing == \/ res.title = NoTitle
                       \/ res.meta_description = NoMetaDescription
                       \/ res.h1_tags = <<NoH1>>
                       \/ (res.images_total > 0 /\ res.images_missing_alt = res.images_total)
        IN  /\ InMsgs("error_keyword_mismatch")
                <=> (res.keyword # "" /\ ~missing /\ ~res.keyword_consistent)
            /\ ~(InMsgs("error_keyword_mismatch") /\ InMsgs("warning_missing_elements"))

\* C7 amended: the keyword-mismatch warning is emitted exactly when the
\* keyword is non-empty, none of title, meta description and H1 is missing and
\* the page is not keyword consistent; it never appears together with the
\* missing-title, missing-description or missing-H1 line.
C7_MismatchIffTextElementsPresent ==
    Recommended =>
        LET res == results.res
            missing == \/ res.title = NoTitle
                       \/ res.meta_description = NoMetaDescription
                       \/ res.h1_tags = <<NoH1>>
        IN  /\ InMsgs("error_keyword_mismatch")
                <=> (res.keyword # "" /\ ~missing /\ ~res.keyword_consistent)
            /\ InMsgs("error_keyword_mismatch") =>
                  /\ ~InMsgs("missing_title")
                  /\ ~InMsgs("missing_description")
                  /\ ~InMsgs("missing_h1")

\* the mismatch warning next to the warning that all images lack alt text
C7_Witness ==
    Recommended /\ InMsgs("error_keyword_mismatch") /\ InMsgs("missing_alt")

\* C8: display_recommendations emits either the structural block, one line
\* per missing element and no tier message, or exactly one tier message:
\* positive from 85, room for improvement from 60 to below 85, low below 60.
TierCount ==
    CountMsgs("tier_great") + CountMsgs("tier_room_for_improvement") + CountMsgs("tier_low")

C8_StructuralBlockOrOneTier ==
    Recommended =>
        LET res == results.res
            noTitle == res.title = NoTitle
            noDesc == res.meta_description = NoMetaDescription
            noH1 == res.h1_tags = <<NoH1>>
            noAlt == res.images_total > 0 /\ res.images_missing_alt = res.images_total
            Lines(b) == IF b THEN 1 ELSE 0
        IN  IF noTitle \/ noDesc \/ noH1 \/ noAlt
            THEN /\ CountMsgs("warning_missing_elements") = 1
                 /\ CountMsgs("missing_title") = Lines(noTitle)
                 /\ CountMsgs("missing_description") = Lines(noDesc)
                 /\ CountMsgs("missing_h1") = Lines(noH1)
                 /\ CountMsgs("missing_alt") = Lines(noAlt)
                 /\ TierCount = 0
            ELSE /\ CountMsgs("warning_missing_elements") = 0
                 /\ CountMsgs("missing_title") + CountMsgs("missing_description")
                      + CountMsgs("missing_h1") + CountMsgs("missing_alt") = 0
                 /\ TierCount = 1
                 /\ InMsgs("tier_great") <=> res.total_score >= 8500
                 /\ InMsgs("tier_room_for_improvement")
                      <=> (res.total_score >= 6000 /\ res.total_score < 8500)
                 /\ InMsgs("tier_low") <=> res.total_score < 6000

\* a complete page scoring exactly 85: the positive message
C8_Witness ==
    Recommended /\ results.res.total_score = 8500 /\ InMsgs("tier_great")

\* C9: an image counts as missing alt exactly when its alt attribute is
\* absent, empty or whitespace-only; images_missing_alt <= images_total; the
\* image score is 10 without images and else the rounded share times 10.
C9_WhitespaceAltCountsAsMissing ==
    Analyzed =>
        LET imgs == fetched.html.imgs
            lacking == {i \in 1..Len(imgs) : ~imgs[i].present \/ strip(imgs[i].value) = ""}
            total == results.res.images_total
            missing == results.res.images_missing_alt
        IN  /\ total = Len(imgs)
            /\ missing = Cardinality(lacking)
            /\ missing <= total
            /\ results.locals.image_score
                 \in (IF total = 0 THEN {1000} ELSE RoundSet((total - missing) * 1000, total))

\* C10: get_ngram_density(words, n) is the reference result: the distinct
\* phrases of n contiguous tokens joined by single spaces, each with its
\* number of occurrences, by descending frequency, ties by earlier first
\* occurrence, cut after the first 10; empty when there are fewer than n tokens.
RefWindows(ws, n) == IF Len(ws) < n THEN {} ELSE 1..(Len(ws) - n + 1)

RECURSIVE RefPhrase(_, _, _)
RefPhrase(ws, i, n) ==
    IF n = 1 THEN ws[i] ELSE RefPhrase(ws, i, n - 1) \o " " \o ws[i + n - 1]

RefPhraseSet(ws, n) == {RefPhrase(ws, i, n) : i \in RefWindows(ws, n)}

RefCount(ws, n, p) == Cardinality({i \in RefWindows(ws, n) : RefPhrase(ws, i, n) = p})

RefFirst(ws, n, p) ==
    CHOOSE i \in RefWindows(ws, n) :
        /\ RefPhrase(ws, i, n) = p
        /\ \A j \in RefWindows(ws, n) : RefPhrase(ws, j, n) = p => i <= j

RefBefore(ws, n, p, q) ==
    \/ RefCount(ws, n, p) > RefCount(ws, n, q)
    \/ RefCount(ws, n, p) = RefCount(ws, n, q) /\ RefFirst(ws, n, p) < RefFirst(ws, n, q)

IsReferenceResult(ws, n, out) ==
    LET all == RefPhraseSet(ws, n)
        listed == {out[k][1] : k \in 1..Len(out)}
    IN  /\ Len(out) = Min(10, Cardinality(all))
        /\ \A k \in 1..Len(out) :
              out[k][1] \in all /\ out[k][2] = RefCount(ws, n, out[k][1])
        /\ \A k, l \in 1..Len(out) : k < l => RefBefore(ws, n, out[k][1], out[l][1])
        /\ \A q \in all \ listed : \A k \in 1..Len(out) : RefBefore(ws, n, out[k][1], q)

C10_NgramMatchesReference ==
    ngram_n # 0 => IsReferenceResult(words, ngram_n, ngram_out)

\* more than 10 distinct bigrams, the cut falling inside a group of equally
\* frequent phrases, and a more frequent phrase first seen after a rarer one
C10_Witness ==
    /\ ngram_n = 2
    /\ Cardinality(RefPhraseSet(words, 2)) > 10
    /\ Len(ngram_out) = 10
    /\ ngram_out[1][2] > ngram_out[10][2]
    /\ \E q \in RefPhraseSet(words, 2) :
          /\ \A k \in 1..10 : ngram_out[k][1] # q
          /\ RefCount(words, 2, q) = ngram_out[10][2]
    /\ \E k, l \in 1..10 :
          /\ k < l
          /\ RefFirst(words, 2, ngram_out[k][1]) > RefFirst(words, 2, ngram_out[l][1])

====
